---- MODULE Spec2Model ----
(***************************************************************************)
(* The banking backend of src/server: request authentication (trpc.ts),    *)
(* the session procedures (routers/auth.ts) and the account ledger         *)
(* (routers/account.ts), as a state machine over the shared store.         *)
(*                                                                         *)
(* Every request is handled by a request slot p.  A slot runs              *)
(* createContext, then the body of one procedure; each action below is     *)
(* the code between two awaits on the store, so that concurrent requests   *)
(* interleave exactly at the store calls.  Times are in milliseconds.      *)
(***************************************************************************)
EXTENDS Integers, Sequences, FiniteSets, TLC

\* ------------------------------------------------------------- bounds
\* Deposit transactions the store may hold.
MaxTx == 2
\* Sessions that may be issued (signup and login together).
MaxIssued == 3
\* Digits of the longest card number a client holds.
MaxCardLen == 3

\* The request slots: the requests that may be in flight at once.
Procs == { 1, 2 }

\* ---------------------------------------------------------- constants
\* trpc.ts:54
earlyExpiryWindow == 60000
\* auth.ts:82-84, 111-113: expiresIn "7d", setDate(getDate() + 7)
SessionTTL == 604800000
\* jsonwebtoken's iat and exp are in whole seconds
MsPerSecond == 1000

\* The instants the clock visits: two instants of issue, the instant at
\* which the session issued at 0 enters its early-expiry window, and one
\* in the last second before the session issued at 1500 expires.
ClockPoints ==
    { 0, 1500, SessionTTL - earlyExpiryWindow, SessionTTL + 1200 }

\* ------------------------------------------------------------- inputs
\* Characters of an email address; upper-case "A" lower-cases to "a".
ToLowerChar(c) == IF c = "A" THEN "a" ELSE c

\* z.string().email().toLowerCase()
ToLowerCase(s) == [i \in 1..Len(s) |-> ToLowerChar(s[i])]

Emails == { <<"a">>, <<"A">>, <<"b">> }
Passwords == { "Pw1!aaaa", "Pw2!bbbb" }
\* What the signups of the checked specification send: one address in
\* two spellings, one password.
SignupEmails == { <<"a">>, <<"A">> }
SignupPasswords == { "Pw1!aaaa" }
AccountTypes == { "checking", "savings" }
\* The values generateAccountNumber may return.
AccountNumbers == { "1000000001", "1000000002" }
Amounts == { 1, 2 }
CardNumbers == { <<"1", "8">>, <<"1", "9">>, <<"1", "-", "8">> }
FundingSources == [ type : {"card", "bank"}, accountNumber : CardNumbers ]
Digits == { "0", "1", "2", "3", "4", "5", "6", "7", "8", "9" }
\* The digit strings of up to MaxCardLen digits
CardDigitStrings == UNION { [ 1..n -> Digits ] : n \in 0..MaxCardLen }

\* bcrypt.hash and bcrypt.compare
Hash(pw) == [ alg |-> "bcrypt", of |-> pw ]
Compare(pw, h) == h = Hash(pw)

\* ------------------------------------------------------------- tokens
\* A token is the JWT: the user id it binds, its iat in seconds, and
\* whether it carries a signature made with the server's secret.
NoToken == [ userId |-> 0, iat |-> 0, signed |-> FALSE ]
ForgedToken == [ userId |-> 1, iat |-> 0, signed |-> FALSE ]

\* jwt.sign({ userId }, secret, { expiresIn: "7d" }) at time t
Sign(uid, t) == [ userId |-> uid, iat |-> t \div MsPerSecond, signed |-> TRUE ]

\* exp claim of a token, in seconds
TokenExp(tok) == tok.iat + (SessionTTL \div MsPerSecond)

\* Mutant of JwtVerify: the exp claim is not looked at.
JwtVerifySignatureOnly(tok, t) == tok.signed

\* jwt.verify: the signature matches and the exp claim is in the future
JwtVerify(tok, t) == tok.signed /\ (t \div MsPerSecond) < TokenExp(tok)

NoUser == 0

\* A client that holds no email and password.
NoCredentials == [ email |-> << >>, password |-> "" ]

VARIABLES
    now,           \* Date.now()
    users,         \* table users: row id = index
    sessions,      \* table sessions: set of rows
    accounts,      \* table accounts: row id = index
    transactions,  \* table transactions: row id = index
    req,           \* per request slot: position and locals
    last,          \* history: the response sent last
    revoked,       \* history: deleted session rows' tokens, and by what
    revalidated,   \* history: tokens validated after createContext deleted their row
    fundLog,       \* history: the fundAccount calls that returned
    fundFailed,    \* history: transaction ids whose balance update threw
    wallet,        \* input: the card number the client holds
    stale,         \* history: tokens validated when their row had expired
    creds          \* input: the email string and password the client holds

vars == << now, users, sessions, accounts, transactions, req, last,
           revoked, revalidated, fundLog, fundFailed, wallet, stale, creds >>

\* Locals of an idle request slot.
Blank ==
    [ pc |-> "idle", op |-> "none", user |-> NoUser, token |-> NoToken,
      email |-> << >>, password |-> "", uid |-> 0,
      atype |-> "", num |-> "", acct |-> 0, amount |-> 0, seen |-> 0,
      txid |-> 0, rows |-> << >>, out |-> << >> ]

NoResponse ==
    [ op |-> "none", result |-> "none", user |-> NoUser, acct |-> 0, rows |-> << >>,
      message |-> "" ]

Init ==
    /\ now = 0
    /\ users = << >>
    /\ sessions = {}
    /\ accounts = << >>
    /\ transactions = << >>
    /\ req = [ p \in Procs |-> Blank ]
    /\ last = NoResponse
    /\ revoked = {}
    /\ revalidated = {}
    /\ fundLog = {}
    /\ fundFailed = {}
    /\ wallet = << >>
    /\ stale = {}
    /\ creds = NoCredentials

\* Tokens that were ever issued: each is still a row or was deleted.
Issued == { s.token : s \in sessions } \cup { r.token : r \in revoked }

\* The cookie a client may send: none, a forged one, or one it was given.
Cookies == { NoToken, ForgedToken } \cup Issued

\* The request of slot p ends with a response (a result or a thrown
\* error); u and a are the caller and the account id of a ledger call,
\* rows the list getTransactions returns.  The message of an error is
\* kept for the refusals of login only.
ReturnRows(p, op, code, u, a, rows) ==
    /\ req' = [ req EXCEPT ![p] = Blank ]
    /\ last' = [ op |-> op, result |-> code, user |-> u, acct |-> a, rows |-> rows,
                 message |-> "" ]

\* The request of slot p ends with a thrown TRPCError { code, message }.
ReturnError(p, op, err) ==
    /\ req' = [ req EXCEPT ![p] = Blank ]
    /\ last' = [ op |-> op, result |-> err.code, user |-> NoUser, acct |-> 0,
                 rows |-> << >>, message |-> err.message ]

Return(p, op, code, u, a) == ReturnRows(p, op, code, u, a, << >>)

\* The request of slot p goes on with locals r.
Goto(p, r) ==
    /\ req' = [ req EXCEPT ![p] = r ]
    /\ last' = last

\* ------------------------------------------------------ the clock
Tick ==
    /\ \E t \in ClockPoints :
          /\ t > now
          /\ \A t2 \in ClockPoints : t2 > now => t <= t2
          /\ now' = t
    /\ UNCHANGED << creds, stale, wallet, users, sessions, accounts, transactions, req, last,
                    revoked, revalidated, fundLog, fundFailed >>

\* ------------------------------------------------ the store's schema
\* Mutant of EmailTaken: users.email carries no unique index.
EmailNeverTaken(email) == FALSE

\* users.email is unique: an insert of a taken email is refused.
EmailTaken(email) == \E i \in 1..Len(users) : users[i].email = email

\* sessions.token is unique: an insert of a taken token is refused.
TokenTaken(tok) == \E s \in sessions : s.token = tok

\* Mutant of NumberTaken: accounts.accountNumber carries no unique index.
NumberNeverTaken(n) == FALSE

\* accounts.accountNumber is unique: an insert of a taken number is refused.
NumberTaken(n) == \E i \in 1..Len(accounts) : accounts[i].accountNumber = n

\* --------------------------------------------- trpc.ts: createContext
\* trpc.ts:48: db.select().from(sessions).where(eq(sessions.token, token))
SessionOf(tok) == { s \in sessions : s.token = tok }

\* Mutant of InEarlyWindow: the comparison is strict.
InEarlyWindowStrict(s) == s.expiresAt - now < earlyExpiryWindow

\* trpc.ts:57: the early-expiry test on a session row
InEarlyWindow(s) == s.expiresAt - now <= earlyExpiryWindow

\* trpc.ts:57-58: the rows createContext deletes.  jwt.verify (44) throws
\* on a bad or expired token before the store is read.
EarlyExpired(tok) ==
    IF tok = NoToken \/ ~JwtVerify(tok, now) THEN {}
    ELSE { s \in SessionOf(tok) : InEarlyWindow(s) }

\* trpc.ts:41-70: the user a token resolves to.  The error thrown at 59
\* is caught at 67, as is the one jwt.verify throws: user stays null.
ResolveUser(tok) ==
    IF tok = NoToken \/ ~JwtVerify(tok, now) THEN NoUser
    ELSE IF SessionOf(tok) = {} THEN NoUser
    ELSE LET s == CHOOSE s \in SessionOf(tok) : TRUE IN
         IF InEarlyWindow(s) THEN NoUser
         ELSE IF s.expiresAt > now /\ tok.userId \in 1..Len(users)
              THEN tok.userId
              ELSE NoUser

\* createContext (trpc.ts:9-77).  The session select, the early-expiry
\* delete and the user select are taken as one step: user rows are never
\* deleted or changed, and the token of a row in its early-expiry window
\* was signed days before, so that no login signs it again.  The cookie
\* is kept with the context only for a resolved user: logout (auth.ts:129)
\* reads it again in that case alone.
Authenticate(p, tok) ==
    /\ req[p].pc = "idle"
    /\ sessions' = sessions \ EarlyExpired(tok)
    /\ revoked' = revoked \cup
                    { [ token |-> s.token, by |-> "early" ] : s \in EarlyExpired(tok) }
    /\ revalidated' = IF [ token |-> tok, by |-> "early" ] \in revoked
                      THEN revalidated \cup { tok } ELSE revalidated
    /\ Goto(p, [ Blank EXCEPT !.pc = "authed",
                              !.user = ResolveUser(tok),
                              !.token = IF ResolveUser(tok) = NoUser
                                        THEN NoToken ELSE tok ])
    /\ stale' = IF \E s \in SessionOf(tok) : s.expiresAt <= now
                THEN stale \cup { tok } ELSE stale
    /\ UNCHANGED << creds, wallet, now, users, accounts, transactions, fundLog, fundFailed >>

\* ------------------------------------------- routers/auth.ts: signup
\* db.select().from(users).where(eq(users.email, email)).get()
UserByEmail(email) ==
    LET found == { i \in 1..Len(users) : users[i].email = email } IN
    IF found = {} THEN NoUser ELSE CHOOSE i \in found : TRUE

\* Requests on their way to issuing a session.
Issuing ==
    { p \in Procs : req[p].pc \in { "signup_insert", "signup_session",
                                    "login_delete", "login_insert" } }

MayIssue == Cardinality(Issued) + Cardinality(Issuing) < MaxIssued

\* auth.ts:20-23, 58-63: lower-case the email, look for an existing user
SignupCheck(p, email, pw) ==
    /\ req[p].pc = "authed"
    /\ MayIssue
    /\ LET e == ToLowerCase(email) IN
       IF UserByEmail(e) # NoUser
       THEN Return(p, "signup", "CONFLICT", NoUser, 0)
       ELSE Goto(p, [ req[p] EXCEPT !.pc = "signup_insert", !.op = "signup",
                                    !.email = e, !.password = pw ])
    /\ UNCHANGED << creds, stale, wallet, now, users, sessions, accounts, transactions,
                    revoked, revalidated, fundLog, fundFailed >>

\* auth.ts:65-79: hash, insert the user, read it back
SignupInsert(p) ==
    /\ req[p].pc = "signup_insert"
    /\ IF EmailTaken(req[p].email)
       THEN /\ users' = users
            /\ Return(p, "signup", "INTERNAL_SERVER_ERROR", NoUser, 0)
       ELSE /\ users' = Append(users, [ email |-> req[p].email,
                                        password |-> Hash(req[p].password) ])
            /\ Goto(p, [ req[p] EXCEPT !.pc = "signup_session",
                                       !.uid = Len(users) + 1 ])
    /\ UNCHANGED << creds, stale, wallet, now, sessions, accounts, transactions,
                    revoked, revalidated, fundLog, fundFailed >>

\* auth.ts:82-86, 111-115: sign a token and make its session row
IssueSession(uid) ==
    [ token |-> Sign(uid, now), userId |-> uid, expiresAt |-> now + SessionTTL ]

\* auth.ts:82-94: issue the session, set the cookie, return
SignupSession(p) ==
    /\ req[p].pc = "signup_session"
    /\ LET s == IssueSession(req[p].uid) IN
       IF TokenTaken(s.token)
       THEN /\ sessions' = sessions
            /\ Return(p, "signup", "INTERNAL_SERVER_ERROR", NoUser, 0)
       ELSE /\ sessions' = sessions \cup { s }
            /\ Return(p, "signup", "OK", NoUser, 0)
    /\ UNCHANGED << creds, stale, wallet, now, users, accounts, transactions,
                    revoked, revalidated, fundLog, fundFailed >>

\* -------------------------------------------- routers/auth.ts: login
NoError == [ code |-> "none", message |-> "" ]

\* Mutant of LoginRefusal: an unknown email is told apart by its message.
LoginRefusalTellsApart(email, pw) ==
    LET u == UserByEmail(email) IN
    IF u = NoUser
    THEN [ code |-> "UNAUTHORIZED", message |-> "User not found" ]
    ELSE IF ~Compare(pw, users[u].password)
    THEN [ code |-> "UNAUTHORIZED", message |-> "Invalid credentials" ]
    ELSE NoError

\* auth.ts:102-106: the error login throws on these credentials, if any:
\* the user is looked up by the email as given (103), then the password
\* is compared (105-106)
LoginRefusal(email, pw) ==
    LET u == UserByEmail(email) IN
    IF u = NoUser
    THEN [ code |-> "UNAUTHORIZED", message |-> "Invalid credentials" ]
    ELSE IF ~Compare(pw, users[u].password)
    THEN [ code |-> "UNAUTHORIZED", message |-> "Invalid credentials" ]
    ELSE NoError

\* auth.ts:102-106: find the user, check the password
LoginSelect(p, email, pw) ==
    /\ req[p].pc = "authed"
    /\ MayIssue
    /\ IF LoginRefusal(email, pw) # NoError
       THEN ReturnError(p, "login", LoginRefusal(email, pw))
       ELSE Goto(p, [ req[p] EXCEPT !.pc = "login_delete", !.op = "login",
                                    !.uid = UserByEmail(email) ])
    /\ UNCHANGED << creds, stale, wallet, now, users, sessions, accounts, transactions,
                    revoked, revalidated, fundLog, fundFailed >>

\* auth.ts:109: delete every session of the user
LoginDelete(p) ==
    /\ req[p].pc = "login_delete"
    /\ LET gone == { s \in sessions : s.userId = req[p].uid } IN
       /\ sessions' = sessions \ gone
       /\ revoked' = revoked \cup { [ token |-> s.token, by |-> "login" ] : s \in gone }
    /\ Goto(p, [ req[p] EXCEPT !.pc = "login_insert" ])
    /\ UNCHANGED << creds, stale, wallet, now, users, accounts, transactions, revalidated, fundLog, fundFailed >>

\* auth.ts:111-123: issue the new session, set the cookie, return
LoginInsert(p) ==
    /\ req[p].pc = "login_insert"
    /\ LET s == IssueSession(req[p].uid) IN
       IF TokenTaken(s.token)
       THEN /\ sessions' = sessions
            /\ Return(p, "login", "INTERNAL_SERVER_ERROR", NoUser, 0)
       ELSE /\ sessions' = sessions \cup { s }
            /\ Return(p, "login", "OK", NoUser, 0)
    /\ UNCHANGED << creds, stale, wallet, now, users, accounts, transactions,
                    revoked, revalidated, fundLog, fundFailed >>

\* ------------------------------------------- routers/auth.ts: logout
\* auth.ts:126-159.  db.delete resolves to the driver's result object,
\* which is never falsy, so the branch at 140-147 is not taken.
Logout(p) ==
    /\ req[p].pc = "authed"
    /\ LET gone == IF req[p].user # NoUser /\ req[p].token # NoToken
                   THEN SessionOf(req[p].token) ELSE {} IN
       /\ sessions' = sessions \ gone
       /\ revoked' = revoked \cup { [ token |-> s.token, by |-> "logout" ] : s \in gone }
    /\ Return(p, "logout",
              IF req[p].user # NoUser THEN "LOGGED_OUT" ELSE "NO_ACTIVE_SESSION",
              NoUser, 0)
    /\ UNCHANGED << creds, stale, wallet, now, users, accounts, transactions, revalidated, fundLog, fundFailed >>

\* auth.ts:138: the delete throws a store error, which ends the call
\* before any header is set
LogoutFail(p) ==
    /\ req[p].pc = "authed"
    /\ req[p].user # NoUser
    /\ req[p].token # NoToken
    /\ Return(p, "logout", "INTERNAL_SERVER_ERROR", NoUser, 0)
    /\ UNCHANGED << creds, stale, wallet, now, users, sessions, accounts, transactions,
                    revoked, revalidated, fundLog, fundFailed >>

\* auth.ts:151-158: the responses of logout that were sent past the
\* Set-Cookie "session=; ...; Max-Age=0" and carry success: true
ClearsCookie(resp) ==
    resp.op = "logout" /\ resp.result \in { "LOGGED_OUT", "NO_ACTIVE_SESSION" }

\* ------------------------------------------ trpc.ts: protectedProcedure
ProtectedOps == { "createAccount", "getAccounts", "fundAccount", "getTransactions" }

\* Mutant of Authorized: the middleware lets every caller through.
AuthorizedAlways(p) == TRUE

\* trpc.ts:86: ctx.user is set
Authorized(p) == req[p].user # NoUser

\* trpc.ts:85-88: an anonymous caller is refused before the body runs
ProtectedReject(p, op) ==
    /\ req[p].pc = "authed"
    /\ ~Authorized(p)
    /\ Return(p, op, "UNAUTHORIZED", NoUser, 0)
    /\ UNCHANGED << creds, stale, wallet, now, users, sessions, accounts, transactions,
                    revoked, revalidated, fundLog, fundFailed >>

\* ---------------------------------- routers/account.ts: createAccount
AccountIds == 1..Len(accounts)

\* account.ts:31-35: the caller's accounts of a type
AccountsOfType(u, t) ==
    { i \in AccountIds : accounts[i].userId = u /\ accounts[i].accountType = t }

\* account.ts:50: the accounts holding a number
AccountsWithNumber(n) == { i \in AccountIds : accounts[i].accountNumber = n }

\* Mutant of CreateCheck: the lookup of an existing account is left out.
CreateCheckNoLookup(p, t) ==
    /\ req[p].pc = "authed"
    /\ Authorized(p)
    /\ Goto(p, [ req[p] EXCEPT !.pc = "create_gen",
                               !.op = "createAccount", !.atype = t ])
    /\ UNCHANGED << creds, stale, wallet, now, users, sessions, accounts, transactions,
                    revoked, revalidated, fundLog, fundFailed >>

\* account.ts:30-42: refuse a second account of the type
CreateCheck(p, t) ==
    /\ req[p].pc = "authed"
    /\ Authorized(p)
    /\ IF AccountsOfType(req[p].user, t) # {}
       THEN Return(p, "createAccount", "CONFLICT", req[p].user, 0)
       ELSE Goto(p, [ req[p] EXCEPT !.pc = "create_gen",
                                    !.op = "createAccount", !.atype = t ])
    /\ UNCHANGED << creds, stale, wallet, now, users, sessions, accounts, transactions,
                    revoked, revalidated, fundLog, fundFailed >>

\* Mutant of CreateGen: the loop ends with the first number drawn.
CreateGenNoLookup(p, n) ==
    /\ req[p].pc = "create_gen"
    /\ Goto(p, [ req[p] EXCEPT !.pc = "create_insert", !.num = n ])
    /\ UNCHANGED << creds, stale, wallet, now, users, sessions, accounts, transactions,
                    revoked, revalidated, fundLog, fundFailed >>

\* account.ts:48-52: one turn of the loop: draw a number, look it up
CreateGen(p, n) ==
    /\ req[p].pc = "create_gen"
    /\ IF AccountsWithNumber(n) = {}
       THEN Goto(p, [ req[p] EXCEPT !.pc = "create_insert", !.num = n ])
       ELSE Goto(p, req[p])
    /\ UNCHANGED << creds, stale, wallet, now, users, sessions, accounts, transactions,
                    revoked, revalidated, fundLog, fundFailed >>

\* account.ts:54-76: insert the account, read it back, return it
CreateInsert(p) ==
    /\ req[p].pc = "create_insert"
    /\ IF NumberTaken(req[p].num)
       THEN /\ accounts' = accounts
            /\ Return(p, "createAccount", "INTERNAL_SERVER_ERROR", req[p].user, 0)
       ELSE /\ accounts' = Append(accounts,
                              [ userId |-> req[p].user,
                                accountNumber |-> req[p].num,
                                accountType |-> req[p].atype,
                                balance |-> 0,
                                status |-> "active" ])
            /\ Return(p, "createAccount", "OK", req[p].user, Len(accounts) + 1)
    /\ UNCHANGED << creds, stale, wallet, now, users, sessions, transactions,
                    revoked, revalidated, fundLog, fundFailed >>

\* account.ts:78-82
GetAccounts(p) ==
    /\ req[p].pc = "authed"
    /\ Authorized(p)
    /\ Return(p, "getAccounts", "OK", req[p].user, 0)
    /\ UNCHANGED << creds, stale, wallet, now, users, sessions, accounts, transactions,
                    revoked, revalidated, fundLog, fundFailed >>

\* ------------------------------------ routers/account.ts: fundAccount
\* Mutant of OwnedAccount: the lookup leaves out eq(accounts.userId, ...).
OwnedAccountAnyUser(u, a) == a \in 1..Len(accounts)

\* account.ts:100-104, 183-187: the account with this id, owned by the user
OwnedAccount(u, a) == a \in AccountIds /\ accounts[a].userId = u

IsDigit(c) == c \in { "0", "1", "2", "3", "4", "5", "6", "7", "8", "9" }

\* parseInt(c, 10) of a digit
DigitVal(c) ==
    CASE c = "0" -> 0 [] c = "1" -> 1 [] c = "2" -> 2 [] c = "3" -> 3
      [] c = "4" -> 4 [] c = "5" -> 5 [] c = "6" -> 6 [] c = "7" -> 7
      [] c = "8" -> 8 [] c = "9" -> 9

\* Mutant of LuhnSum: a doubled digit above 9 is not reduced by 9.
RECURSIVE LuhnSumNoReduce(_, _)
LuhnSumNoReduce(digits, i) ==
    IF i > Len(digits) THEN 0
    ELSE LET d == DigitVal(digits[i])
         IN (IF (Len(digits) - i) % 2 = 1 THEN 2 * d ELSE d)
              + LuhnSumNoReduce(digits, i + 1)

\* account.ts:125-133: the sum over digits[i..], the last digit of
\* digits being the first one and left undoubled
RECURSIVE LuhnSum(_, _)
LuhnSum(digits, i) ==
    IF i > Len(digits) THEN 0
    ELSE LET d == DigitVal(digits[i])
             shouldDouble == (Len(digits) - i) % 2 = 1
             v == IF shouldDouble
                  THEN (IF 2 * d > 9 THEN 2 * d - 9 ELSE 2 * d)
                  ELSE d
         IN v + LuhnSum(digits, i + 1)

\* account.ts:120-136
isValidCardNumber(cardNumber) ==
    LET digits == SelectSeq(cardNumber, IsDigit) IN
    LuhnSum(digits, 1) % 10 = 0

\* Deposits on their way to the transactions table.
Depositing == { p \in Procs : req[p].pc = "fund_insert" }

\* Mutant of FundCheck: the card number is checked after the deposit row
\* is inserted.
FundCheckCardAfterInsert(p, a, amt, src) ==
    /\ req[p].pc = "authed"
    /\ Authorized(p)
    /\ Len(transactions) + Cardinality(Depositing) < MaxTx
    /\ IF ~OwnedAccount(req[p].user, a)
       THEN /\ Return(p, "fundAccount", "NOT_FOUND", req[p].user, a)
            /\ transactions' = transactions
       ELSE IF src.type = "card" /\ ~isValidCardNumber(src.accountNumber)
       THEN /\ Return(p, "fundAccount", "BAD_REQUEST", req[p].user, a)
            /\ transactions' = Append(transactions,
                                 [ accountId |-> a, type |-> "deposit",
                                   amount |-> amt, status |-> "completed",
                                   createdAt |-> now, processedAt |-> now ])
       ELSE /\ Goto(p, [ req[p] EXCEPT !.pc = "fund_insert", !.op = "fundAccount",
                                       !.acct = a, !.amount = amt,
                                       !.seen = accounts[a].balance ])
            /\ transactions' = transactions
    /\ UNCHANGED << creds, stale, wallet, now, users, sessions, accounts,
                    revoked, revalidated, fundLog, fundFailed >>

\* account.ts:97-140: ownership, status and card checks
FundCheck(p, a, amt, src) ==
    /\ req[p].pc = "authed"
    /\ Authorized(p)
    /\ Len(transactions) + Cardinality(Depositing) < MaxTx
    /\ IF ~OwnedAccount(req[p].user, a)
       THEN Return(p, "fundAccount", "NOT_FOUND", req[p].user, a)
       ELSE IF accounts[a].status # "active"
       THEN Return(p, "fundAccount", "BAD_REQUEST", req[p].user, a)
       ELSE IF src.type = "card" /\ ~isValidCardNumber(src.accountNumber)
       THEN Return(p, "fundAccount", "BAD_REQUEST", req[p].user, a)
       ELSE Goto(p, [ req[p] EXCEPT !.pc = "fund_insert", !.op = "fundAccount",
                                    !.acct = a, !.amount = amt,
                                    !.seen = accounts[a].balance ])
    /\ UNCHANGED << creds, stale, wallet, now, users, sessions, accounts, transactions,
                    revoked, revalidated, fundLog, fundFailed >>

\* transactions.createdAt defaults to the time of the insert.
CreatedAtDefault == now

\* account.ts:142-152: insert the deposit row; createdAt is not among the
\* values and takes the store's default
FundInsert(p) ==
    /\ req[p].pc = "fund_insert"
    /\ transactions' = Append(transactions,
                         [ accountId |-> req[p].acct,
                           type |-> "deposit",
                           amount |-> req[p].amount,
                           status |-> "completed",
                           createdAt |-> CreatedAtDefault,
                           processedAt |-> now ])
    /\ Goto(p, [ req[p] EXCEPT !.pc = "fund_update",
                               !.txid = Len(transactions) + 1 ])
    /\ UNCHANGED << creds, stale, wallet, now, users, sessions, accounts, revoked, revalidated, fundLog, fundFailed >>

\* Mutant of FundUpdate: the balance is written back from the row read
\* at the ownership check, not added to by the store.
FundUpdateWriteBack(p) ==
    /\ req[p].pc = "fund_update"
    /\ accounts' = [ accounts EXCEPT ![req[p].acct].balance =
                                        req[p].seen + req[p].amount ]
    /\ Goto(p, [ req[p] EXCEPT !.pc = "fund_reread" ])
    /\ UNCHANGED << creds, stale, wallet, now, users, sessions, transactions, revoked, revalidated,
                    fundLog, fundFailed >>

\* account.ts:155-160: balance = balance + amount, evaluated by the store
FundUpdate(p) ==
    /\ req[p].pc = "fund_update"
    /\ accounts' = [ accounts EXCEPT ![req[p].acct].balance = @ + req[p].amount ]
    /\ Goto(p, [ req[p] EXCEPT !.pc = "fund_reread" ])
    /\ UNCHANGED << creds, stale, wallet, now, users, sessions, transactions, revoked, revalidated, fundLog, fundFailed >>

\* account.ts:155-160: the update throws a store error, which ends the
\* call; nothing undoes the insert of 142-152
FundUpdateFail(p) ==
    /\ req[p].pc = "fund_update"
    /\ fundFailed' = fundFailed \cup { req[p].txid }
    /\ Return(p, "fundAccount", "INTERNAL_SERVER_ERROR", req[p].user, req[p].acct)
    /\ UNCHANGED << creds, stale, wallet, now, users, sessions, accounts, transactions, revoked, revalidated, fundLog >>

\* account.ts:163-172: read the balance back and return
FundReread(p) ==
    /\ req[p].pc = "fund_reread"
    /\ fundLog' = fundLog \cup { [ acct |-> req[p].acct, amount |-> req[p].amount,
                                   txid |-> req[p].txid ] }
    /\ Return(p, "fundAccount", "OK", req[p].user, req[p].acct)
    /\ UNCHANGED << creds, stale, wallet, now, users, sessions, accounts, transactions, revoked, revalidated, fundFailed >>

\* -------------------------------- routers/account.ts: getTransactions
\* account.ts:182-194: ownership check
GetTxCheck(p, a) ==
    /\ req[p].pc = "authed"
    /\ Authorized(p)
    /\ IF ~OwnedAccount(req[p].user, a)
       THEN Return(p, "getTransactions", "NOT_FOUND", req[p].user, a)
       ELSE Goto(p, [ req[p] EXCEPT !.pc = "gettx_read",
                                    !.op = "getTransactions", !.acct = a ])
    /\ UNCHANGED << creds, stale, wallet, now, users, sessions, accounts, transactions,
                    revoked, revalidated, fundLog, fundFailed >>

\* account.ts:215: the ids of the rows with eq(transactions.accountId, a)
TransactionsOf(a) == { i \in 1..Len(transactions) : transactions[i].accountId = a }

\* Mutant of TxBefore: rows of one createdAt come in ascending id.
TxBeforeTieAscending(i, j) ==
    \/ transactions[i].createdAt > transactions[j].createdAt
    \/ transactions[i].createdAt = transactions[j].createdAt /\ i < j

\* account.ts:216: orderBy(desc(createdAt), desc(id)): row i comes before row j
TxBefore(i, j) ==
    \/ transactions[i].createdAt > transactions[j].createdAt
    \/ transactions[i].createdAt = transactions[j].createdAt /\ i > j

\* account.ts:216: the ids of S in the order of the query
RECURSIVE OrderBy(_)
OrderBy(S) ==
    IF S = {} THEN << >>
    ELSE LET first == CHOOSE i \in S : \A j \in S \ { i } : TxBefore(i, j)
         IN << first >> \o OrderBy(S \ { first })

\* account.ts:202-214: a row of the query, with the joined accountType
JoinedRow(i) ==
    [ id |-> i, accountId |-> transactions[i].accountId,
      createdAt |-> transactions[i].createdAt,
      accountType |-> accounts[transactions[i].accountId].accountType ]

\* account.ts:219-226: one turn of the loop: read the row's account, push
\* the row with that account's accountType
Enriched(row) == [ row EXCEPT !.accountType = accounts[row.accountId].accountType ]

\* account.ts:201-218, 228: run the query; an empty list is returned at once
GetTxRead(p) ==
    /\ req[p].pc = "gettx_read"
    /\ LET ids == OrderBy(TransactionsOf(req[p].acct))
           found == [ k \in 1..Len(ids) |-> JoinedRow(ids[k]) ] IN
       IF found = << >>
       THEN Return(p, "getTransactions", "OK", req[p].user, req[p].acct)
       ELSE Goto(p, [ req[p] EXCEPT !.pc = "gettx_enrich", !.rows = found ])
    /\ UNCHANGED << creds, stale, wallet, now, users, sessions, accounts, transactions,
                    revoked, revalidated, fundLog, fundFailed >>

\* account.ts:219-228: one turn of the loop; the last turn returns the list
GetTxEnrich(p) ==
    /\ req[p].pc = "gettx_enrich"
    /\ LET pushed == Append(req[p].out, Enriched(Head(req[p].rows))) IN
       IF Tail(req[p].rows) = << >>
       THEN ReturnRows(p, "getTransactions", "OK", req[p].user, req[p].acct, pushed)
       ELSE Goto(p, [ req[p] EXCEPT !.rows = Tail(req[p].rows), !.out = pushed ])
    /\ UNCHANGED << creds, stale, wallet, now, users, sessions, accounts, transactions,
                    revoked, revalidated, fundLog, fundFailed >>

\* ----------------------------------------------------- specifications
\* Account ids a caller may name: every stored one and one that is not.
AccountIdInputs == 1..(Len(accounts) + 1)

\* The steps of signup
SignupStep(p) ==
    \/ \E e \in SignupEmails, pw \in SignupPasswords : SignupCheck(p, e, pw)
    \/ SignupInsert(p)
    \/ SignupSession(p)

\* The session procedures: they read and write users and sessions only.
SessionStep(p) ==
    \/ \E e \in Emails, pw \in Passwords : LoginSelect(p, e, pw)
    \/ LoginDelete(p)
    \/ LoginInsert(p)
    \/ Logout(p)
    \/ LogoutFail(p)

\* The steps of createAccount and getAccounts
AccountStep(p) ==
    \/ \E t \in AccountTypes : CreateCheck(p, t)
    \/ \E n \in AccountNumbers : CreateGen(p, n)
    \/ CreateInsert(p)
    \/ GetAccounts(p)

\* The steps of fundAccount and getTransactions
LedgerStep(p) ==
    \/ \E a \in AccountIdInputs, amt \in Amounts, src \in FundingSources :
          FundCheck(p, a, amt, src)
    \/ FundInsert(p)
    \/ FundUpdate(p)
    \/ FundUpdateFail(p)
    \/ FundReread(p)
    \/ \E a \in AccountIdInputs : GetTxCheck(p, a)
    \/ GetTxRead(p)
    \/ GetTxEnrich(p)

AuthStep(p) ==
    \/ \E tok \in Cookies : Authenticate(p, tok)
    \/ \E op \in ProtectedOps : ProtectedReject(p, op)

\* Every procedure, on any email and password.
Next ==
    \/ Tick
    \/ \E p \in Procs :
          \/ AuthStep(p) \/ SessionStep(p) \/ AccountStep(p) \/ LedgerStep(p)
          \/ \E e \in Emails, pw \in Passwords : SignupCheck(p, e, pw)
          \/ SignupInsert(p)
          \/ SignupSession(p)

Spec == Init /\ [][Next]_vars

\* The session lifecycle: the clock, createContext and the procedures of
\* auth.ts, which read and write users and sessions only.
NextSession ==
    \/ Tick
    \/ \E p \in Procs : AuthStep(p) \/ SignupStep(p) \/ SessionStep(p)

SpecSession == Init /\ [][NextSession]_vars

\* Signups alone, on any of the addresses: the clock, createContext and
\* signup.
NextSignup ==
    \/ Tick
    \/ \E p \in Procs :
          \/ \E tok \in Cookies : Authenticate(p, tok)
          \/ \E e \in Emails, pw \in SignupPasswords : SignupCheck(p, e, pw)
          \/ SignupInsert(p)
          \/ SignupSession(p)

SpecSignup == Init /\ [][NextSignup]_vars

\* The empty store, the client holding any email string and password that
\* signup accepts.
InitCredentials ==
    /\ now = 0
    /\ users = << >>
    /\ sessions = {}
    /\ accounts = << >>
    /\ transactions = << >>
    /\ req = [ p \in Procs |-> Blank ]
    /\ last = NoResponse
    /\ revoked = {}
    /\ revalidated = {}
    /\ fundLog = {}
    /\ fundFailed = {}
    /\ wallet = << >>
    /\ stale = {}
    /\ creds \in [ email : Emails, password : Passwords ]

\* One client signing up and logging in with the email string and the
\* password it holds: the clock, createContext, signup and login.
NextCredentials ==
    \/ Tick
    \/ \E p \in Procs :
          \/ \E tok \in Cookies : Authenticate(p, tok)
          \/ SignupCheck(p, creds.email, creds.password)
          \/ SignupInsert(p)
          \/ SignupSession(p)
          \/ LoginSelect(p, creds.email, creds.password)
          \/ LoginDelete(p)
          \/ LoginInsert(p)

SpecCredentials == InitCredentials /\ [][NextCredentials]_vars

\* The store once one user has signed up at instant 0 (a state of
\* SpecSession) and no other request is in flight.
InitLogin ==
    /\ now = 0
    /\ users = << [ email |-> <<"a">>, password |-> Hash("Pw1!aaaa") ] >>
    /\ sessions = { [ token |-> Sign(1, 0), userId |-> 1, expiresAt |-> SessionTTL ] }
    /\ accounts = << >>
    /\ transactions = << >>
    /\ req = [ p \in Procs |-> Blank ]
    /\ last = [ op |-> "signup", result |-> "OK", user |-> NoUser, acct |-> 0,
                rows |-> << >>, message |-> "" ]
    /\ revoked = {}
    /\ revalidated = {}
    /\ fundLog = {}
    /\ fundFailed = {}
    /\ wallet = << >>
    /\ stale = {}
    /\ creds = NoCredentials

\* The logins of signed-up users: the clock, createContext, login and
\* logout; every session row but the first is inserted by a login.
NextLogin ==
    \/ Tick
    \/ \E p \in Procs : AuthStep(p) \/ SessionStep(p)

SpecLogin == InitLogin /\ [][NextLogin]_vars

\* The store once two users have signed up at instant 0 (a state of Spec)
\* and no account exists yet.
InitAccounts ==
    /\ now = 0
    /\ users = << [ email |-> <<"a">>, password |-> Hash("Pw1!aaaa") ],
                  [ email |-> <<"b">>, password |-> Hash("Pw1!aaaa") ] >>
    /\ sessions = { [ token |-> Sign(u, 0), userId |-> u, expiresAt |-> SessionTTL ]
                      : u \in { 1, 2 } }
    /\ accounts = << >>
    /\ transactions = << >>
    /\ req = [ p \in Procs |-> Blank ]
    /\ last = NoResponse
    /\ revoked = {}
    /\ revalidated = {}
    /\ fundLog = {}
    /\ fundFailed = {}
    /\ wallet = << >>
    /\ stale = {}
    /\ creds = NoCredentials

\* Account creation: createContext, createAccount and getAccounts, which
\* past createContext read and write accounts only.
NextAccounts == \E p \in Procs : AuthStep(p) \/ AccountStep(p)

SpecAccounts == InitAccounts /\ [][NextAccounts]_vars

\* Slot p's loop draws a number no account holds.
DrawsFreeNumber(p) ==
    \E n \in AccountNumbers : CreateGen(p, n) /\ AccountsWithNumber(n) = {}

\* The store answers the insert a call awaits, and the generator, as long
\* as numbers no account holds keep being there to draw, draws one.
AccountsFairness ==
    \A p \in Procs : WF_vars(CreateInsert(p)) /\ SF_vars(DrawsFreeNumber(p))

SpecAccountsFair == SpecAccounts /\ AccountsFairness

\* The store once each of the two users has opened a checking account
\* (a state of SpecAccounts) and no deposit was made yet.
InitLedger ==
    /\ now = 0
    /\ users = << [ email |-> <<"a">>, password |-> Hash("Pw1!aaaa") ],
                  [ email |-> <<"b">>, password |-> Hash("Pw1!aaaa") ] >>
    /\ sessions = { [ token |-> Sign(u, 0), userId |-> u, expiresAt |-> SessionTTL ]
                      : u \in { 1, 2 } }
    /\ accounts = << [ userId |-> 1, accountNumber |-> "1000000001",
                       accountType |-> "checking", balance |-> 0,
                       status |-> "active" ],
                     [ userId |-> 2, accountNumber |-> "1000000002",
                       accountType |-> "checking", balance |-> 0,
                       status |-> "active" ] >>
    /\ transactions = << >>
    /\ req = [ p \in Procs |-> Blank ]
    /\ last = NoResponse
    /\ revoked = {}
    /\ revalidated = {}
    /\ fundLog = {}
    /\ fundFailed = {}
    /\ wallet = << >>
    /\ stale = {}
    /\ creds = NoCredentials

\* The ledger: createContext, fundAccount and getTransactions, which past
\* createContext read and write accounts' balances and transactions only.
NextLedger == \E p \in Procs : AuthStep(p) \/ LedgerStep(p)

SpecLedger == InitLedger /\ [][NextLedger]_vars

\* The store of InitLedger, the client holding any card number of up to
\* MaxCardLen digits.
InitCard ==
    /\ now = 0
    /\ users = << [ email |-> <<"a">>, password |-> Hash("Pw1!aaaa") ],
                  [ email |-> <<"b">>, password |-> Hash("Pw1!aaaa") ] >>
    /\ sessions = { [ token |-> Sign(u, 0), userId |-> u, expiresAt |-> SessionTTL ]
                      : u \in { 1, 2 } }
    /\ accounts = << [ userId |-> 1, accountNumber |-> "1000000001",
                       accountType |-> "checking", balance |-> 0,
                       status |-> "active" ],
                     [ userId |-> 2, accountNumber |-> "1000000002",
                       accountType |-> "checking", balance |-> 0,
                       status |-> "active" ] >>
    /\ transactions = << >>
    /\ req = [ p \in Procs |-> Blank ]
    /\ last = NoResponse
    /\ revoked = {}
    /\ revalidated = {}
    /\ fundLog = {}
    /\ fundFailed = {}
    /\ wallet \in CardDigitStrings
    /\ stale = {}
    /\ creds = NoCredentials

\* One signed-in client funding accounts with the number it holds, as a
\* card number or as a bank account number: createContext and fundAccount.
NextCard ==
    \/ \E tok \in Issued : Authenticate(1, tok)
    \/ \E a \in AccountIdInputs, t \in { "card", "bank" } :
          FundCheck(1, a, 1, [ type |-> t, accountNumber |-> wallet ])
    \/ FundInsert(1)
    \/ FundUpdate(1)
    \/ FundReread(1)

SpecCard == InitCard /\ [][NextCard]_vars

\* The transaction history: the clock, createContext of signed-in
\* clients, deposits of 1 from a bank source and getTransactions, on the
\* store of InitLedger.
NextHistory ==
    \/ Tick
    \/ \E p \in Procs :
          \/ \E tok \in Issued : Authenticate(p, tok)
          \/ \E a \in AccountIds :
                FundCheck(p, a, 1, [ type |-> "bank", accountNumber |-> wallet ])
          \/ FundInsert(p)
          \/ FundUpdate(p)
          \/ FundReread(p)
          \/ \E a \in AccountIds : GetTxCheck(p, a)
          \/ GetTxRead(p)
          \/ GetTxEnrich(p)

SpecHistory == InitLedger /\ [][NextHistory]_vars

\* The store once two users have signed up and the first has opened a
\* checking account (a state of SpecAccounts).
InitProtected ==
    /\ now = 0
    /\ users = << [ email |-> <<"a">>, password |-> Hash("Pw1!aaaa") ],
                  [ email |-> <<"b">>, password |-> Hash("Pw1!aaaa") ] >>
    /\ sessions = { [ token |-> Sign(u, 0), userId |-> u, expiresAt |-> SessionTTL ]
                      : u \in { 1, 2 } }
    /\ accounts = << [ userId |-> 1, accountNumber |-> "1000000001",
                       accountType |-> "checking", balance |-> 0,
                       status |-> "active" ] >>
    /\ transactions = << >>
    /\ req = [ p \in Procs |-> Blank ]
    /\ last = NoResponse
    /\ revoked = {}
    /\ revalidated = {}
    /\ fundLog = {}
    /\ fundFailed = {}
    /\ wallet = << >>
    /\ stale = {}
    /\ creds = NoCredentials

\* The protected procedures under every identity: the clock and
\* createContext on any cookie (which leaves the token of a session about
\* to expire without a row) in every slot, and in the first slot the four
\* procedures of account.ts, with deposits of 1 from a bank source.
NextProtected ==
    \/ Tick
    \/ \E p \in Procs : AuthStep(p)
    \/ AccountStep(1)
    \/ \E a \in AccountIdInputs :
          FundCheck(1, a, 1, [ type |-> "bank", accountNumber |-> wallet ])
    \/ FundInsert(1)
    \/ FundUpdate(1)
    \/ FundReread(1)
    \/ \E a \in AccountIdInputs : GetTxCheck(1, a)
    \/ GetTxRead(1)
    \/ GetTxEnrich(1)

SpecProtected == InitProtected /\ [][NextProtected]_vars

\* ------------------------------------------------------------ claims
RECURSIVE SumAmounts(_)
\* The sum of the amounts of a set of records
SumAmounts(S) ==
    IF S = {} THEN 0
    ELSE LET c == CHOOSE c \in S : TRUE IN c.amount + SumAmounts(S \ { c })

\* The completed deposit rows of account a, as records with their id
DepositsOf(a) ==
    { [ txid |-> i, amount |-> transactions[i].amount ] :
        i \in { j \in 1..Len(transactions) :
                  /\ transactions[j].accountId = a
                  /\ transactions[j].type = "deposit"
                  /\ transactions[j].status = "completed" } }

\* The fundAccount calls on account a that returned
CallsOn(a) == { c \in fundLog : c.acct = a }

\* No fundAccount call is between its ownership check and its return.
NoFundingInFlight ==
    \A p \in Procs : req[p].pc \notin { "fund_insert", "fund_update", "fund_reread" }

\* C1: once the K fundAccount calls issued on an account of balance 0
\* have all returned, whatever the interleaving of their store steps, the
\* stored balance is the sum of their amounts and the account has exactly
\* K completed deposit rows, one per call, each of its call's amount.
C1_ConcurrentFunding ==
    (NoFundingInFlight /\ fundFailed = {}) =>
        \A a \in AccountIds :
            /\ accounts[a].balance = SumAmounts(CallsOn(a))
            /\ Cardinality(DepositsOf(a)) = Cardinality(CallsOn(a))
            /\ DepositsOf(a) = { [ txid |-> c.txid, amount |-> c.amount ] : c \in CallsOn(a) }

\* Witness of C1: two calls of different amounts on one account returned.
C1_Witness ==
    /\ NoFundingInFlight
    /\ fundFailed = {}
    /\ \E c, d \in fundLog : c.acct = d.acct /\ c.amount # d.amount

\* The deposit rows of account a whose call is not about to update the balance
SettledDepositsOf(a) ==
    { d \in DepositsOf(a) :
        \A p \in Procs : ~(req[p].pc = "fund_update" /\ req[p].txid = d.txid) }

\* C2: the insert and the balance increment of a fundAccount call are all
\* or nothing: once a call has ended, in success or in failure, every
\* completed deposit row is reflected in its account's balance.
C2_AllOrNothing ==
    \A a \in AccountIds : accounts[a].balance = SumAmounts(SettledDepositsOf(a))

\* C10: fundAccount and getTransactions called by an authenticated user on
\* an account id that does not exist or belongs to another user end with
\* NOT_FOUND (no other code, no success) and change nothing;
\* a call that goes on to write or read is on an account of its caller.
C10_ForeignAccountNotFound ==
    /\ [](\A p \in Procs :
            req[p].pc \in { "fund_insert", "fund_update", "fund_reread",
                            "gettx_read", "gettx_enrich" }
                => /\ req[p].acct \in AccountIds
                   /\ accounts[req[p].acct].userId = req[p].user)
    /\ [][\A p \in Procs :
            (/\ req[p].pc = "authed"
             /\ req[p].user # NoUser
             /\ req'[p].pc # "authed"
             /\ \/ req'[p].op \in { "fundAccount", "getTransactions" }
                \/ (req'[p].pc = "idle" /\ last'.op \in { "fundAccount", "getTransactions" }))
            => LET a == IF req'[p].pc = "idle" THEN last'.acct ELSE req'[p].acct IN
               (a \notin AccountIds \/ accounts[a].userId # req[p].user)
                  => /\ req'[p].pc = "idle"
                     /\ last'.result = "NOT_FOUND"
                     /\ accounts' = accounts
                     /\ transactions' = transactions]_vars

\* Witness of C10: a call on another user's account was answered NOT_FOUND.
C10_Witness ==
    /\ last.op \in { "fundAccount", "getTransactions" }
    /\ last.result = "NOT_FOUND"
    /\ last.acct \in AccountIds
    /\ accounts[last.acct].userId # last.user

\* C7: a user holds at most one account per accountType in every state,
\* concurrent createAccount calls included.
C7_OneAccountPerType ==
    \A u \in 1..Len(users), t \in AccountTypes :
        Cardinality(AccountsOfType(u, t)) <= 1

\* C8: a createAccount call by a user who already owns an account of the
\* requested type is answered CONFLICT and leaves the accounts as they are.
C8_SecondAccountConflict ==
    [][\A p \in Procs, t \in AccountTypes :
          (CreateCheck(p, t) /\ AccountsOfType(req[p].user, t) # {})
             => /\ req'[p].pc = "idle"
                /\ last'.op = "createAccount"
                /\ last'.result = "CONFLICT"
                /\ accounts' = accounts]_vars

\* Witness of C8: a createAccount call was answered CONFLICT.
C8_Witness ==
    /\ last.op = "createAccount"
    /\ last.result = "CONFLICT"
    /\ \E t \in AccountTypes : AccountsOfType(last.user, t) # {}

\* C9: no two account rows hold the same accountNumber, also when two
\* createAccount calls draw the same number between each other's lookup
\* and insert.
C9_UniqueAccountNumber ==
    \A i, j \in AccountIds :
        i # j => accounts[i].accountNumber # accounts[j].accountNumber

\* Witness of C9: two calls drew the same free number and the store
\* refused the second insert.
C9_Witness ==
    /\ last.op = "createAccount"
    /\ last.result = "INTERNAL_SERVER_ERROR"
    /\ accounts # << >>

\* No login or signup is between its first store step and its return.
NoIssuingInFlight == Issuing = {}

\* The session rows of user u
SessionsOfUser(u) == { s \in sessions : s.userId = u }

\* C3: once the logins of a user have all completed, whether they ran one
\* after another or interleaved, at most one session row of the user exists.
C3_SingleSessionAfterLogins ==
    NoIssuingInFlight =>
        \A u \in 1..Len(users) : Cardinality(SessionsOfUser(u)) <= 1

\* The tokens whose session row was deleted at some time
RevokedTokens == { r.token : r \in revoked }

\* Slot p runs createContext in this step and ends with a user.
Resolves(p) ==
    /\ req[p].pc = "idle"
    /\ req'[p].pc = "authed"
    /\ req'[p].user # NoUser

\* C4: createContext resolves a token to a user only if a session row of
\* that token exists, expires more than 60 seconds from now and references
\* that user; and a token whose row was deleted (by logout, by a later
\* login of the user, by early-expiry detection) never resolves afterwards.
C4_ResolvesOnlyLiveSession ==
    [][\A p \in Procs :
          Resolves(p) =>
             /\ \E s \in sessions :
                   /\ s.token = req'[p].token
                   /\ s.expiresAt - now > earlyExpiryWindow
                   /\ s.userId = req'[p].user
             /\ req'[p].token \notin RevokedTokens]_vars

\* The tokens whose row createContext deleted as early-expired
EarlyDeleted == { r.token : r \in { x \in revoked : x.by = "early" } }

\* C5 as stated: validating a token whose row has expiresAt - now <= 60 s
\* deletes the row.
C5_EarlyWindowRowDeleted ==
    [][\A p \in Procs, tok \in Cookies :
          (/\ Authenticate(p, tok)
           /\ \E s \in sessions : s.token = tok /\ s.expiresAt - now <= earlyExpiryWindow)
             => \A s \in sessions' : s.token # tok]_vars

\* C5, amended: validating a token that still verifies (the current second
\* is before its exp claim) and whose row has expiresAt - now <= 60 s
\* deletes the row and yields no user; the row is never inserted again and
\* every later validation of the token finds no row and yields no user.
C5_VerifiedEarlyWindowRowDeleted ==
    /\ [](\A tok \in EarlyDeleted : \A s \in sessions : s.token # tok)
    /\ [][\A p \in Procs, tok \in Cookies :
            Authenticate(p, tok) =>
               /\ (/\ (now \div MsPerSecond) < TokenExp(tok)
                   /\ \E s \in sessions :
                         s.token = tok /\ s.expiresAt - now <= earlyExpiryWindow)
                     => /\ \A s \in sessions' : s.token # tok
                        /\ tok \in { r.token : r \in { x \in revoked' : x.by = "early" } }
                        /\ req'[p].user = NoUser
               /\ tok \in EarlyDeleted
                     => /\ \A s \in sessions : s.token # tok
                        /\ req'[p].user = NoUser]_vars

\* Witness of C5: a token was validated again after createContext had
\* deleted its row, and the caller is anonymous.
C5_Witness ==
    \E tok \in revalidated :
        /\ tok \in EarlyDeleted
        /\ \A s \in sessions : s.token # tok
        /\ \E p \in Procs : req[p].pc = "authed" /\ req[p].user = NoUser

\* C6: validating a token whose row has expiresAt - now <= 60 s ends the
\* request with UNAUTHORIZED; the request does not go on as an anonymous one.
C6_EarlyWindowUnauthorized ==
    [][\A p \in Procs, tok \in Cookies :
          (/\ Authenticate(p, tok)
           /\ \E s \in sessions : s.token = tok /\ s.expiresAt - now <= earlyExpiryWindow)
             => /\ req'[p].pc = "idle"
                /\ last'.result = "UNAUTHORIZED"]_vars

\* The Luhn total of a digit string, by its definition: counting from the
\* rightmost digit, every second digit is doubled and the decimal digits
\* of the products are added to the other digits.
RECURSIVE LuhnTotal(_, _)
LuhnTotal(digits, k) ==
    IF k > Len(digits) THEN 0
    ELSE LET d == DigitVal(digits[Len(digits) + 1 - k])
             twice == 2 * d
         IN (IF k % 2 = 0 THEN (twice \div 10) + (twice % 10) ELSE d)
              + LuhnTotal(digits, k + 1)

\* The digit string passes the Luhn checksum.
PassesLuhn(digits) == LuhnTotal(digits, 1) % 10 = 0

\* C11: fundAccount on an owned active account with a card-type source is
\* answered BAD_REQUEST exactly when the card number (any digit string of
\* up to MaxCardLen digits) fails the Luhn checksum, and goes on to the
\* insert otherwise; with a bank-type source the number is not checked and
\* the call always goes on.
C11_CardLuhnBankUnchecked ==
    [][\A a \in AccountIds, t \in { "card", "bank" } :
          (/\ FundCheck(1, a, 1, [ type |-> t, accountNumber |-> wallet ])
           /\ OwnedAccount(req[1].user, a)
           /\ accounts[a].status = "active")
             => IF t = "card" /\ ~PassesLuhn(wallet)
                THEN /\ req'[1].pc = "idle"
                     /\ last'.op = "fundAccount"
                     /\ last'.result = "BAD_REQUEST"
                ELSE /\ req'[1].pc = "fund_insert"
                     /\ last' = last]_vars

\* Witness of C11: a card of MaxCardLen digits failing the checksum was
\* refused on the caller's own account, and a deposit was made from a
\* bank source of the same number.
C11_Witness ==
    /\ Len(wallet) = MaxCardLen
    /\ ~PassesLuhn(wallet)
    /\ last.op = "fundAccount"
    /\ last.result = "BAD_REQUEST"
    /\ OwnedAccount(last.user, last.acct)
    /\ transactions # << >>

\* The list is strictly descending in (createdAt, id).
NewestFirst(rows) ==
    \A k, l \in 1..Len(rows) :
        k < l => \/ rows[k].createdAt > rows[l].createdAt
                 \/ rows[k].createdAt = rows[l].createdAt /\ rows[k].id > rows[l].id

\* The list holds the rows of account a, each once, with their createdAt.
ExactlyRowsOf(rows, a) ==
    /\ { rows[k].id : k \in 1..Len(rows) } = TransactionsOf(a)
    /\ Len(rows) = Cardinality(TransactionsOf(a))
    /\ \A k \in 1..Len(rows) :
          /\ rows[k].accountId = a
          /\ rows[k].createdAt = transactions[rows[k].id].createdAt

\* C12: the query of getTransactions on an owned account yields exactly
\* the transactions of that account, ordered by createdAt descending and,
\* within one createdAt, by id descending; the loop keeps the rows and
\* their order, and every row returned carries the accountType of the
\* account.
C12_HistoryNewestFirst ==
    [][\A p \in Procs :
          LET a == req[p].acct
              isReturn == req'[p].pc = "idle"
          IN
          /\ (req[p].pc = "gettx_read" /\ req'[p] # req[p])
                => LET got == IF isReturn THEN last'.rows ELSE req'[p].rows IN
                   /\ OwnedAccount(req[p].user, a)
                   /\ ExactlyRowsOf(got, a)
                   /\ NewestFirst(got)
                   /\ isReturn => last'.op = "getTransactions" /\ last'.result = "OK"
          /\ (req[p].pc = "gettx_enrich" /\ req'[p] # req[p])
                => LET before == req[p].out \o req[p].rows
                       after == IF isReturn THEN last'.rows
                                ELSE req'[p].out \o req'[p].rows
                       done == IF isReturn THEN Len(after) ELSE Len(req'[p].out)
                   IN
                   /\ Len(after) = Len(before)
                   /\ \A k \in 1..Len(after) :
                         /\ after[k].id = before[k].id
                         /\ after[k].accountId = a
                         /\ after[k].createdAt = before[k].createdAt
                   /\ \A k \in 1..done :
                         after[k].accountType = accounts[a].accountType
                   /\ isReturn => last'.op = "getTransactions" /\ last'.result = "OK"]_vars

\* Witness of C12: getTransactions returned a deposit made after the
\* clock moved, ahead of an older one.
C12_Witness ==
    /\ last.op = "getTransactions"
    /\ last.result = "OK"
    /\ Len(last.rows) >= 2
    /\ last.rows[1].createdAt > last.rows[2].createdAt
    /\ NewestFirst(last.rows)

\* C13: every logout call, also one whose delete fails with a store
\* error, sets the cookie-clearing header; and it reports success only if
\* the caller had no session or the row of the caller's token is gone.
C13_LogoutAlwaysClearsCookie ==
    [][\A p \in Procs :
          (Logout(p) \/ LogoutFail(p))
             => /\ ClearsCookie(last')
                /\ ClearsCookie(last')
                     => \/ req[p].user = NoUser
                        \/ SessionOf(req[p].token) \cap sessions' = {}]_vars

\* Slot p returns from signup with success in this step.
SignupSucceeds(p) ==
    /\ req[p].pc = "signup_session"
    /\ req'[p].pc = "idle"
    /\ last'.op = "signup"
    /\ last'.result = "OK"

\* C14: when a signup for an email (as normalized) returns with success,
\* whatever other signups interleave with it, exactly one user row holds
\* that email, exactly one session row references that user, and the token
\* of the row just inserted, which is the one returned, resolves to that
\* user.
C14_SignupOneUserOneSession ==
    [][\A p \in Procs :
          SignupSucceeds(p) =>
             LET e == req[p].email
                 u == req[p].uid
             IN
             /\ { i \in 1..Len(users') : users'[i].email = e } = { u }
             /\ Cardinality({ s \in sessions' : s.userId = u }) = 1
             /\ sessions' # sessions
             /\ \A s \in sessions' \ sessions :
                   /\ s.userId = u
                   /\ (ResolveUser(s.token))' = u]_vars

\* Witness of C14: a signup succeeded while another signup for the same
\* email, past its lookup, is about to insert.
C14_Witness ==
    /\ last.op = "signup"
    /\ last.result = "OK"
    /\ \E q \in Procs :
          /\ req[q].pc = "signup_insert"
          /\ EmailTaken(req[q].email)
          /\ SessionsOfUser(UserByEmail(req[q].email)) # {}

\* The email is of no user.
UnknownEmail(email) == UserByEmail(email) = NoUser

\* The email is of a user, the password is not that user's.
WrongPassword(email, pw) ==
    /\ UserByEmail(email) # NoUser
    /\ ~Compare(pw, users[UserByEmail(email)].password)

\* C15: in every state, the error of a login with an unknown email and the
\* error of a login with a known email and a wrong password are the same,
\* UNAUTHORIZED with one message; and a login refused for either reason
\* answers with that error and leaves the store as it is: no session row
\* is deleted or inserted.
C15_LoginRefusalsAlike ==
    /\ [](\A e1 \in Emails, e2 \in Emails, pw1 \in Passwords, pw2 \in Passwords :
            (UnknownEmail(e1) /\ WrongPassword(e2, pw2))
               => /\ LoginRefusal(e1, pw1) = LoginRefusal(e2, pw2)
                  /\ LoginRefusal(e1, pw1).code = "UNAUTHORIZED")
    /\ [][\A p \in Procs, e \in Emails, pw \in Passwords :
            (LoginSelect(p, e, pw) /\ (UnknownEmail(e) \/ WrongPassword(e, pw)))
               => /\ req'[p].pc = "idle"
                  /\ last'.op = "login"
                  /\ last'.result = "UNAUTHORIZED"
                  /\ last'.message = LoginRefusal(e, pw).message
                  /\ sessions' = sessions
                  /\ users' = users
                  /\ accounts' = accounts
                  /\ transactions' = transactions]_vars

\* Witness of C15: a login was refused while a session row is stored, in
\* a state where both kinds of bad credentials exist.
C15_Witness ==
    /\ last.op = "login"
    /\ last.result = "UNAUTHORIZED"
    /\ sessions # {}
    /\ \E e1 \in Emails, e2 \in Emails, pw \in Passwords :
          UnknownEmail(e1) /\ WrongPassword(e2, pw)

\* The positions inside the body of a protected procedure
BodyPositions ==
    { "create_gen", "create_insert", "fund_insert", "fund_update",
      "fund_reread", "gettx_read", "gettx_enrich" }

\* C16: a request whose cookie resolved to no user (no token, a token that
\* does not verify, a token without a row, a session expired or about to)
\* is never inside the body of a protected procedure, and its call of a
\* protected procedure is answered UNAUTHORIZED with the accounts and the
\* transactions left as they are.
C16_AnonymousRefused ==
    /\ [](\A p \in Procs : req[p].pc \in BodyPositions => req[p].user # NoUser)
    /\ [][\A p \in Procs :
            (/\ req[p].pc = "authed"
             /\ req[p].user = NoUser
             /\ req'[p].pc = "idle"
             /\ last'.op \in ProtectedOps)
               => /\ last'.result = "UNAUTHORIZED"
                  /\ accounts' = accounts
                  /\ transactions' = transactions]_vars

\* Witness of C16: a protected procedure was refused while deposits exist,
\* a token whose row createContext deleted having been presented again.
C16_Witness ==
    /\ last.op \in ProtectedOps
    /\ last.result = "UNAUTHORIZED"
    /\ transactions # << >>
    /\ revalidated # {}

FundRejected(p) ==
    /\ req[p].pc = "authed"
    /\ req[p].user # NoUser
    /\ req'[p].pc = "idle"
    /\ last'.op = "fundAccount"
    /\ last'.result \in { "NOT_FOUND", "BAD_REQUEST" }

\* C18: a fundAccount call rejected with NOT_FOUND or BAD_REQUEST leaves
\* the store as it is: no transaction row is inserted, no balance and no
\* other row changes.
C18_RejectedFundingNoEffect ==
    [][\A p \in Procs :
          FundRejected(p) =>
             /\ transactions' = transactions
             /\ accounts' = accounts
             /\ sessions' = sessions
             /\ users' = users]_vars

\* Witness of C18: a call on the caller's own account was rejected for its
\* card number while a deposit of another call is stored.
C18_Witness ==
    /\ last.op = "fundAccount"
    /\ last.result = "BAD_REQUEST"
    /\ OwnedAccount(last.user, last.acct)
    /\ transactions # << >>
    /\ \A a \in AccountIds : accounts[a].balance = SumAmounts(SettledDepositsOf(a))

\* Every number the generator may return is the number of an account.
AllNumbersTaken == \A n \in AccountNumbers : AccountsWithNumber(n) # {}

\* The loop of createAccount is left only with the number drawn in that
\* turn, which no account held at the lookup.
LoopExitsOnFreeNumber ==
    [][\A p \in Procs, n \in AccountNumbers :
          (CreateGen(p, n) /\ req'[p].pc # "create_gen")
             => /\ req'[p].pc = "create_insert"
                /\ req'[p].num = n
                /\ AccountsWithNumber(n) = {}]_vars

\* A call whose every candidate collides stays in the loop, whatever the
\* number of turns: no step takes it out.
LoopRetriesWhileColliding ==
    [][\A p \in Procs :
          (req[p].pc = "create_gen" /\ AllNumbersTaken) => req'[p].pc = "create_gen"]_vars

\* A call in the loop or past it ends, unless no free number is left to
\* draw.
CreateTerminates ==
    \A p \in Procs :
        (req[p].pc \in { "create_gen", "create_insert" })
            ~> (req[p].pc = "idle" \/ (req[p].pc = "create_gen" /\ AllNumbersTaken))

\* The row createAccount inserts for slot p
CreatedRow(p) ==
    [ userId |-> req[p].user, accountNumber |-> req[p].num,
      accountType |-> req[p].atype, balance |-> 0, status |-> "active" ]

\* C19 as stated: the loop exits only with a number absent at its lookup,
\* retries while candidates collide, and once a free number is drawn the
\* call ends having inserted the account with balance 0 and status active.
C19_LoopEndsWithInsert ==
    /\ LoopExitsOnFreeNumber
    /\ LoopRetriesWhileColliding
    /\ CreateTerminates
    /\ [][\A p \in Procs :
            CreateInsert(p) => accounts' = Append(accounts, CreatedRow(p))]_vars

\* C19, amended: the loop exits only with a number absent at its lookup,
\* retries while candidates collide, and once a free number is drawn the
\* call ends: it has inserted the account with balance 0 and status active
\* if no account took the number since the lookup, and has failed with the
\* store's error, inserting nothing, if one did.
C19_LoopEndsWithInsertUnlessTaken ==
    /\ LoopExitsOnFreeNumber
    /\ LoopRetriesWhileColliding
    /\ CreateTerminates
    /\ [][\A p \in Procs :
            CreateInsert(p) =>
               /\ req'[p].pc = "idle"
               /\ last'.op = "createAccount"
               /\ IF AccountsWithNumber(req[p].num) = {}
                  THEN /\ accounts' = Append(accounts, CreatedRow(p))
                       /\ last'.result = "OK"
                  ELSE /\ accounts' = accounts
                       /\ last'.result = "INTERNAL_SERVER_ERROR"]_vars

\* Witness of C19: a call got the last free number and inserted its
\* account, and another call is in the loop with only collisions to draw.
C19_Witness ==
    /\ last.op = "createAccount"
    /\ last.result = "OK"
    /\ last.acct \in AccountIds
    /\ accounts[last.acct].balance = 0
    /\ accounts[last.acct].status = "active"
    /\ AllNumbersTaken
    /\ \E q \in Procs : req[q].pc = "create_gen"

\* The user a signup with the client's email string and password made
SignedUpUser ==
    LET found == { i \in 1..Len(users) :
                     /\ users[i].email = ToLowerCase(creds.email)
                     /\ Compare(creds.password, users[i].password) }
    IN IF found = {} THEN NoUser ELSE CHOOSE i \in found : TRUE

\* C20: once a signup with an email string and a password has made a
\* user, a login with the same email string, in the same letter case, and
\* the same password passes the credential check and goes on to issue a
\* session for that user.
C20_LoginAfterSignupAnyCase ==
    [][\A p \in Procs :
          (LoginSelect(p, creds.email, creds.password) /\ SignedUpUser # NoUser)
             => /\ req'[p].pc = "login_delete"
                /\ req'[p].uid = SignedUpUser]_vars

====
